---- MODULE Spec2Model ----
(***************************************************************************)
(* ps-alloc: alloc / free / relloc over a byte-addressed memory and the    *)
(* global allocator (std::alloc::alloc / std::alloc::dealloc).             *)
(*                                                                         *)
(* The machine word (usize) is scaled from 64 bits to USIZE_BITS bits so   *)
(* that the overflow cases are reachable; every size, address and stored   *)
(* header field is a usize of that width.                                  *)
(***************************************************************************)
EXTENDS Integers, Sequences, FiniteSets, TLC

\* ------------------------------------------------------------------ bounds
USIZE_BITS == 8
HeapSlots == 4
MaxOps == 2

\* ------------------------------------------------------- machine and layout
USIZE_MAX == 2^USIZE_BITS - 1
ISIZE_MAX == 2^(USIZE_BITS - 1) - 1
USIZE_BYTES == (USIZE_BITS + 7) \div 8
NULL == 0
None == -1

MARKER_FREE == <<70, 114, 51, 51, 77, 109, 114, 121>>
MARKER_USED == <<85, 53, 51, 100, 77, 109, 114, 121>>
MARKER_LEN == 8

\* #[repr(align(16))] struct AllocationHeader { marker: [u8; 8], size: usize }
HEADER_ALIGN == 16
RoundUp(n, a) == ((n + a - 1) \div a) * a
HEADER_SIZE == RoundUp(MARKER_LEN + USIZE_BYTES, HEADER_ALIGN)

Min(a, b) == IF a < b THEN a ELSE b

\* ------------------------------------------------------------ address space
\* [0, HEADER_SIZE) is the unmapped null page; [StaticLo, StaticHi] is memory
\* of the process that the global allocator never handed out; [HeapLo, HeapHi]
\* is the arena of the global allocator; everything else is unmapped.
StaticLo == HEADER_SIZE
StaticHi == 5 * HEADER_SIZE - 1
HeapLo == 5 * HEADER_SIZE
HeapHi == HeapLo + HeapSlots * HEADER_SIZE - 1
Static == StaticLo..StaticHi
Heap == HeapLo..HeapHi
Mapped == Static \cup Heap

\* ------------------------------------------------------------- raw memory
Bytes(m, a, n) == [i \in 1..n |-> m[a + i - 1]]

RECURSIVE LoadLE(_, _, _)
LoadLE(m, a, n) == IF n = 0 THEN 0 ELSE m[a] + 256 * LoadLE(m, a + 1, n - 1)

LEByte(v, i) == (v \div (256^i)) % 256

\* header.marker and header.size as the bytes at the header address
HeaderMarker(m, h) == Bytes(m, h, MARKER_LEN)
HeaderSize(m, h) == LoadLE(m, h + MARKER_LEN, USIZE_BYTES) % (USIZE_MAX + 1)

\* StampHeader storing the room behind the header in place of the block size
StampHeaderPayloadSize(m, h, marker, size) ==
  [a \in DOMAIN m |->
     IF a \in h..(h + MARKER_LEN - 1) THEN marker[a - h + 1]
     ELSE IF a \in (h + MARKER_LEN)..(h + MARKER_LEN + USIZE_BYTES - 1)
          THEN LEByte(IF size >= HEADER_SIZE THEN size - HEADER_SIZE ELSE size,
                      a - h - MARKER_LEN)
          ELSE m[a]]

StampHeader(m, h, marker, size) ==
  [a \in DOMAIN m |->
     IF a \in h..(h + MARKER_LEN - 1) THEN marker[a - h + 1]
     ELSE IF a \in (h + MARKER_LEN)..(h + MARKER_LEN + USIZE_BYTES - 1)
          THEN LEByte(size, a - h - MARKER_LEN)
          ELSE m[a]]

SetMarker(m, h, marker) ==
  [a \in DOMAIN m |->
     IF a \in h..(h + MARKER_LEN - 1) THEN marker[a - h + 1] ELSE m[a]]

\* --------------------------------------------------- checked arithmetic
\* usize::checked_add / usize::checked_next_multiple_of (None on overflow)
wrapping_add(a, b) == (a + b) % (USIZE_MAX + 1)

checked_add(a, b) == IF a + b > USIZE_MAX THEN None ELSE a + b

checked_next_multiple_of(a, b) ==
  IF b = 0 THEN None
  ELSE LET r == a % b
           n == IF r = 0 THEN a ELSE a + (b - r)
       IN IF n > USIZE_MAX THEN None ELSE n

\* the block size as one more unit than the payload's whole units, plus the header
BlockSizeUnits(size) ==
  LET n == ((size \div HEADER_SIZE) + 2) * HEADER_SIZE
  IN IF n > USIZE_MAX THEN None ELSE n

\* lib.rs 29-33: the total block size of a request, None for ArithmeticError
BlockSize(size) ==
  LET s1 == checked_add(size, HEADER_SIZE)
  IN IF s1 = None THEN None ELSE checked_next_multiple_of(s1, HEADER_SIZE)

IsPowerOfTwo(n) == \E k \in 0..USIZE_BITS : n = 2^k

\* Layout::from_size_align: an error (size = None) when align is no power of
\* two or size, rounded up to align, exceeds isize::MAX
Layout_from_size_align(size, align) ==
  IF ~IsPowerOfTwo(align) \/ size > ISIZE_MAX - (align - 1)
  THEN [size |-> None, align |-> align]
  ELSE [size |-> size, align |-> align]

\* ------------------------------------------------------ global allocator
\* blocks: the set of [addr, size] the global allocator has handed out and not
\* taken back.
Range(a, n) == a..(a + n - 1)

Fits(blocks, a, n) ==
  /\ Range(a, n) \subseteq Heap
  /\ \A b \in blocks : Range(a, n) \cap Range(b.addr, b.size) = {}

\* std::alloc::alloc(layout): null when out of memory, else the address of an
\* unused range; a conforming allocator returns a multiple of layout.align, the
\* check at lib.rs 43 exists for one that does not.
std_alloc(blocks, layout) ==
  {NULL}
  \cup {a \in Heap : a % layout.align = 0 /\ Fits(blocks, a, layout.size)}
  \cup {a \in Heap : a % layout.align = layout.align \div 2
                     /\ Fits(blocks, a, layout.size)}

\* Bytes the allocator writes into a range it has taken back (its free-list
\* link, at the start of the range).
FreeListByte == 0
Scribble(m, a) ==
  [x \in DOMAIN m |-> IF x \in Range(a, HEADER_SIZE) THEN FreeListByte ELSE m[x]]

\* std::alloc::dealloc(addr, layout). A range handed out with this layout is
\* taken back and its bytes are from then on the allocator's: left as they are
\* or overwritten. Any other argument is undefined behaviour: the process is
\* aborted, or the call returns and nothing is taken back.
std_dealloc(m, blocks, addr, layout) ==
  LET b == [addr |-> addr, size |-> layout.size]
  IN IF b \in blocks
     THEN {[mem |-> m, blocks |-> blocks \ {b}, crash |-> FALSE],
           [mem |-> Scribble(m, addr), blocks |-> blocks \ {b}, crash |-> FALSE]}
     ELSE {[mem |-> m, blocks |-> blocks, crash |-> TRUE],
           [mem |-> m, blocks |-> blocks, crash |-> FALSE]}

\* --------------------------------------------------------------- outcomes
\* What one call leaves behind: memory, the allocator's blocks, the returned
\* Result (res, ret) and the calls it made to the global allocator, in order.
Outcome(m, blocks, res, ret, calls) ==
  [mem |-> m, blocks |-> blocks, res |-> res, ret |-> ret, calls |-> calls]

Call(fn, addr, layout) ==
  [fn |-> fn, addr |-> addr, size |-> layout.size, align |-> layout.align]

Ok == <<"Ok">>
Crash == <<"Crash">>

\* --------------------------------------------------------------- alloc
\* lib.rs 54: the payload pointer of the block at ptr
PayloadPtrIsBlock(ptr) == ptr

PayloadPtr(ptr) == ptr + HEADER_SIZE

\* lib.rs 39-56: alloc once std::alloc::alloc has returned ptr
alloc_at(m, blocks, layout, ptr) ==
  LET req == Call("alloc", ptr, layout)
      got == blocks \cup {[addr |-> ptr, size |-> layout.size]}
  IN IF ptr = NULL
     THEN {Outcome(m, blocks, <<"OutOfMemory">>, NULL, <<req>>)}
     ELSE IF ptr % HEADER_SIZE # 0
     THEN {Outcome(d.mem, d.blocks,
                   IF d.crash THEN Crash ELSE <<"ImproperAlignment">>, NULL,
                   <<req, Call("dealloc", ptr, layout)>>)
             : d \in std_dealloc(m, got, ptr, layout)}
     ELSE {Outcome(StampHeader(m, ptr, MARKER_USED, layout.size), got,
                   Ok, PayloadPtr(ptr), <<req>>)}

\* lib.rs 28-57
alloc(m, blocks, size) ==
  LET total == BlockSize(size)
  IN IF total = None
     THEN {Outcome(m, blocks, <<"ArithmeticError">>, NULL, <<>>)}
     ELSE LET layout == Layout_from_size_align(total, HEADER_SIZE)
          IN IF layout.size = None
             THEN {Outcome(m, blocks, <<"LayoutError">>, NULL, <<>>)}
             ELSE UNION {alloc_at(m, blocks, layout, ptr)
                           : ptr \in std_alloc(blocks, layout)}

\* --------------------------------------------------------------- free
\* lib.rs 84-88: what free makes of the marker it reads
MarkerCheckFreeOnly(marker) ==
  IF marker = MARKER_FREE THEN "DoubleFree" ELSE "Used"

MarkerCheck(marker) ==
  IF marker = MARKER_FREE THEN "DoubleFree"
  ELSE IF marker # MARKER_USED THEN "InvalidAllocation"
  ELSE "Used"

\* free_used with the marker written before the layout is built
free_used_marked_first(m, blocks, header_ptr) ==
  LET layout == Layout_from_size_align(HeaderSize(m, header_ptr), HEADER_SIZE)
      m1 == SetMarker(m, header_ptr, MARKER_FREE)
  IN IF layout.size = None
     THEN {Outcome(m1, blocks, <<"LayoutError">>, NULL, <<>>)}
     ELSE {Outcome(d.mem, d.blocks, IF d.crash THEN Crash ELSE Ok, NULL,
                   <<Call("dealloc", header_ptr, layout)>>)
             : d \in std_dealloc(m1, blocks, header_ptr, layout)}

\* free_used releasing the block with its marker left as it is
free_used_unmarked(m, blocks, header_ptr) ==
  LET layout == Layout_from_size_align(HeaderSize(m, header_ptr), HEADER_SIZE)
  IN IF layout.size = None
     THEN {Outcome(m, blocks, <<"LayoutError">>, NULL, <<>>)}
     ELSE {Outcome(d.mem, d.blocks, IF d.crash THEN Crash ELSE Ok, NULL,
                   <<Call("dealloc", header_ptr, layout)>>)
             : d \in std_dealloc(m, blocks, header_ptr, layout)}

\* lib.rs 90-96: free once the header at header_ptr has read MARKER_USED
free_used(m, blocks, header_ptr) ==
  LET layout == Layout_from_size_align(HeaderSize(m, header_ptr), HEADER_SIZE)
  IN IF layout.size = None
     THEN {Outcome(m, blocks, <<"LayoutError">>, NULL, <<>>)}
     ELSE {Outcome(d.mem, d.blocks, IF d.crash THEN Crash ELSE Ok, NULL,
                   <<Call("dealloc", header_ptr, layout)>>)
             : d \in std_dealloc(SetMarker(m, header_ptr, MARKER_FREE), blocks,
                                 header_ptr, layout)}

\* lib.rs 71-96: free of a pointer that is not null. Reading a header in
\* unmapped memory ends the process.
free_nonnull(m, blocks, ptr) ==
  IF ptr % HEADER_SIZE # 0
  THEN {Outcome(m, blocks, <<"ImproperAlignment">>, NULL, <<>>)}
  ELSE LET header_ptr == ptr - HEADER_SIZE
       IN IF header_ptr % HEADER_ALIGN # 0
          THEN {Outcome(m, blocks, <<"ImproperAlignment">>, NULL, <<>>)}
          ELSE IF ~(Range(header_ptr, HEADER_SIZE) \subseteq Mapped)
          THEN {Outcome(m, blocks, Crash, NULL, <<>>)}
          ELSE LET check == MarkerCheck(HeaderMarker(m, header_ptr))
               IN IF check # "Used"
                  THEN {Outcome(m, blocks, <<check>>, NULL, <<>>)}
                  ELSE free_used(m, blocks, header_ptr)

\* free without the test for null
free_skip_null(m, blocks, ptr) == free_nonnull(m, blocks, ptr)

\* lib.rs 66-97
free(m, blocks, ptr) ==
  IF ptr = NULL
  THEN {Outcome(m, blocks, <<"NullPtr">>, NULL, <<>>)}
  ELSE free_nonnull(m, blocks, ptr)

\* --------------------------------------------------------------- relloc
CopyLenShort(header_size, new_size) == Min(header_size, new_size) - 1

\* lib.rs 142: the number of bytes copy_nonoverlapping is given
CopyLen(header_size, new_size) == Min(header_size, new_size)

\* copy_nonoverlapping(src, dst, count) on memory m
CopyBytes(m, src, dst, count) ==
  [a \in DOMAIN m |-> IF a \in Range(dst, count) THEN m[src + (a - dst)] ELSE m[a]]

\* relloc_free freeing the old pointer a second time in place of the new one
relloc_free_old_twice(m, blocks, ptr, new_ptr, calls) ==
  UNION {
    IF f.res = Ok
    THEN {Outcome(f.mem, f.blocks, Ok, new_ptr, calls \o f.calls)}
    ELSE IF f.res = Crash
    THEN {Outcome(f.mem, f.blocks, Crash, NULL, calls \o f.calls)}
    ELSE {Outcome(g.mem, g.blocks,
                  IF g.res = Ok THEN <<"DeallocationError">> \o f.res
                  ELSE IF g.res = Crash THEN Crash
                  ELSE <<"FreeFailedTwice">> \o f.res \o g.res,
                  NULL, calls \o f.calls \o g.calls)
            : g \in free(f.mem, f.blocks, ptr)}
    : f \in free(m, blocks, ptr)}

\* relloc_free reporting the failure of free(ptr) and keeping the new block
relloc_free_keeps_new(m, blocks, ptr, new_ptr, calls) ==
  {IF f.res = Ok
   THEN Outcome(f.mem, f.blocks, Ok, new_ptr, calls \o f.calls)
   ELSE IF f.res = Crash
   THEN Outcome(f.mem, f.blocks, Crash, NULL, calls \o f.calls)
   ELSE Outcome(f.mem, f.blocks, <<"DeallocationError">> \o f.res, NULL,
                calls \o f.calls)
     : f \in free(m, blocks, ptr)}

\* lib.rs 145-153: free(ptr), and free(new_ptr) when that fails
relloc_free(m, blocks, ptr, new_ptr, calls) ==
  UNION {
    IF f.res = Ok
    THEN {Outcome(f.mem, f.blocks, Ok, new_ptr, calls \o f.calls)}
    ELSE IF f.res = Crash
    THEN {Outcome(f.mem, f.blocks, Crash, NULL, calls \o f.calls)}
    ELSE {Outcome(g.mem, g.blocks,
                  IF g.res = Ok THEN <<"DeallocationError">> \o f.res
                  ELSE IF g.res = Crash THEN Crash
                  ELSE <<"FreeFailedTwice">> \o f.res \o g.res,
                  NULL, calls \o f.calls \o g.calls)
            : g \in free(f.mem, f.blocks, new_ptr)}
    : f \in free(m, blocks, ptr)}

\* relloc_used giving the old block up when the new one cannot be had
relloc_used_gives_up_old(m, blocks, ptr, new_size) ==
  UNION {
    IF a.res = Crash
    THEN {a}
    ELSE IF a.res # Ok
    THEN {Outcome(f.mem, f.blocks, <<"AllocationError">> \o a.res, NULL,
                  a.calls \o f.calls)
            : f \in free(a.mem, a.blocks, ptr)}
    ELSE LET count == CopyLen(HeaderSize(a.mem, ptr - HEADER_SIZE), new_size)
         IN IF ~(Range(ptr, count) \subseteq Mapped)
            THEN {Outcome(a.mem, a.blocks, Crash, NULL, a.calls)}
            ELSE relloc_free(CopyBytes(a.mem, ptr, a.ret, count), a.blocks,
                             ptr, a.ret, a.calls)
    : a \in alloc(m, blocks, new_size)}

\* lib.rs 139-153: relloc once the header of ptr has read MARKER_USED. The
\* copy reads Range(ptr, count); a read of unmapped memory ends the process.
relloc_used(m, blocks, ptr, new_size) ==
  UNION {
    IF a.res = Crash
    THEN {a}
    ELSE IF a.res # Ok
    THEN {Outcome(a.mem, a.blocks, <<"AllocationError">> \o a.res, NULL, a.calls)}
    ELSE LET count == CopyLen(HeaderSize(a.mem, ptr - HEADER_SIZE), new_size)
         IN IF ~(Range(ptr, count) \subseteq Mapped)
            THEN {Outcome(a.mem, a.blocks, Crash, NULL, a.calls)}
            ELSE relloc_free(CopyBytes(a.mem, ptr, a.ret, count), a.blocks,
                             ptr, a.ret, a.calls)
    : a \in alloc(m, blocks, new_size)}

\* relloc_zero with the result of free dropped
relloc_zero_ignore(m, blocks, ptr) ==
  IF ptr # NULL
  THEN {IF f.res = Crash THEN f ELSE [f EXCEPT !.res = Ok]
          : f \in free(m, blocks, ptr)}
  ELSE {Outcome(m, blocks, Ok, NULL, <<>>)}

\* lib.rs 108-114
relloc_zero(m, blocks, ptr) ==
  IF ptr # NULL
  THEN {IF f.res = Ok \/ f.res = Crash THEN f
        ELSE [f EXCEPT !.res = <<"DeallocationError">> \o f.res]
          : f \in free(m, blocks, ptr)}
  ELSE {Outcome(m, blocks, Ok, NULL, <<>>)}

\* relloc_null with every failure of alloc reported as OutOfMemory
relloc_null_oom(m, blocks, new_size) ==
  {IF a.res = Ok \/ a.res = Crash THEN a
   ELSE [a EXCEPT !.res = <<"AllocationError", "OutOfMemory">>]
     : a \in alloc(m, blocks, new_size)}

\* lib.rs 116-118
relloc_null(m, blocks, new_size) ==
  {IF a.res = Ok \/ a.res = Crash THEN a
   ELSE [a EXCEPT !.res = <<"AllocationError">> \o a.res]
     : a \in alloc(m, blocks, new_size)}

\* the marker test with the two refusals exchanged
RellocMarkerCheckSwapped(marker) ==
  IF marker = MARKER_FREE THEN "InvalidPointer"
  ELSE IF marker # MARKER_USED THEN "UseAfterFree"
  ELSE "Used"

\* lib.rs 133-137: what relloc makes of the marker it reads
RellocMarkerCheck(marker) ==
  IF marker = MARKER_FREE THEN "UseAfterFree"
  ELSE IF marker # MARKER_USED THEN "InvalidPointer"
  ELSE "Used"

\* lib.rs 107-154
relloc(m, blocks, ptr, new_size) ==
  IF new_size = 0
  THEN relloc_zero(m, blocks, ptr)
  ELSE IF ptr = NULL
  THEN relloc_null(m, blocks, new_size)
  ELSE IF ptr % HEADER_SIZE # 0
  THEN {Outcome(m, blocks, <<"ImproperAlignment">>, NULL, <<>>)}
  ELSE LET header_ptr == ptr - HEADER_SIZE
       IN IF header_ptr % HEADER_ALIGN # 0
          THEN {Outcome(m, blocks, <<"ImproperAlignment">>, NULL, <<>>)}
          ELSE IF ~(Range(header_ptr, HEADER_SIZE) \subseteq Mapped)
          THEN {Outcome(m, blocks, Crash, NULL, <<>>)}
          ELSE LET check == RellocMarkerCheck(HeaderMarker(m, header_ptr))
               IN IF check # "Used"
                  THEN {Outcome(m, blocks, <<check>>, NULL, <<>>)}
                  ELSE relloc_used(m, blocks, ptr, new_size)

\* ================================================================ the state
VARIABLES
  mem,     \* the bytes of mapped memory
  blocks,  \* the global allocator's record of the ranges it has handed out
  ptrs,    \* the caller's record of the pointers the library returned
  last,    \* the most recent call and what it returned
  ops,     \* the number of calls made
  thr      \* per thread, the call it is in and how far it has got

vars == <<mem, blocks, ptrs, last, ops, thr>>

\* ------------------------------------------------------------ the caller
\* Static memory holds four header-sized records the library never wrote:
\* neither marker, MARKER_USED with a block size, MARKER_USED with a size no
\* layout accepts, and MARKER_FREE.
StaticHeaders ==
  << [marker |-> [i \in 1..MARKER_LEN |-> 0], size |-> 0],
     [marker |-> MARKER_USED, size |-> 2 * HEADER_SIZE],
     [marker |-> MARKER_USED, size |-> USIZE_MAX],
     [marker |-> MARKER_FREE, size |-> 2 * HEADER_SIZE] >>

RECURSIVE StampAll(_, _)
StampAll(m, k) ==
  IF k = 0 THEN m
  ELSE StampHeader(StampAll(m, k - 1), StaticLo + (k - 1) * HEADER_SIZE,
                   StaticHeaders[k].marker, StaticHeaders[k].size)

\* Pointers the library never returned: the address after each static record,
\* one whose header would lie in the null page, and one that is no multiple of
\* HEADER_SIZE.
StaticPtrs == {StaticLo + k * HEADER_SIZE : k \in 1..Len(StaticHeaders)}
ForeignPtrs == StaticPtrs \cup {HEADER_SIZE, StaticLo + HEADER_SIZE + 8}

OwnPtrs == {e.ptr : e \in ptrs}
PtrInputs == {NULL} \cup ForeignPtrs \cup OwnPtrs

\* Request sizes: small ones, the largest, and one from each failing range.
SizeInputs ==
  {0, 5, ISIZE_MAX, USIZE_MAX - HEADER_SIZE, USIZE_MAX}

NewSizeInputs == {0, 3, 12, ISIZE_MAX, USIZE_MAX}

\* relloc is called with every new size on null and on the library's own
\* pointers, and with 0 and one other size on the rest.
RellocInputs ==
  (({NULL} \cup OwnPtrs) \X NewSizeInputs) \cup (ForeignPtrs \X {0, 3})

PatternSeeds == {17}

Pattern(seed, i) == (seed + 7 * i) % 256

\* The caller's record after a call: a stale pointer whose memory a later
\* request covers is marked reused, a live pointer whose block was released
\* becomes freed, and a returned pointer is live with the size asked for.
Overlaps(e, c) ==
  Range(e.ptr - HEADER_SIZE, e.bsize) \cap Range(c.addr, c.size) # {}

Track(ps, o, req) ==
  LET cs == {o.calls[i] : i \in DOMAIN o.calls}
      reqs == {c \in cs : c.fn = "alloc" /\ c.addr # NULL}
      rels == {c \in cs : c.fn = "dealloc"}
      p1 == {IF e.st = "freed" /\ \E c \in reqs : Overlaps(e, c)
             THEN [e EXCEPT !.st = "reused"] ELSE e : e \in ps}
      p2 == {IF e.st = "live" /\ \E c \in rels : c.addr = e.ptr - HEADER_SIZE
             THEN [e EXCEPT !.st = "freed"] ELSE e : e \in p1}
  IN IF o.res = Ok /\ o.ret # NULL
     THEN {e \in p2 : e.ptr # o.ret}
          \cup {[ptr |-> o.ret, req |-> req, st |-> "live",
                 bsize |-> (CHOOSE c \in reqs : TRUE).size]}
     ELSE p2

Record(op, ptr, size, o) ==
  [op |-> op, ptr |-> ptr, size |-> size, res |-> o.res, ret |-> o.ret,
   calls |-> o.calls]

Running == ops < MaxOps /\ last.res # Crash

\* ---------------------------------------------------------- the threads
Threads == {1, 2}

\* a thread that has made no call
NoCall ==
  [op |-> "none", ptr |-> NULL, size |-> 0, pc |-> "idle", ctx |-> "none",
   n |-> 0, fp |-> NULL, hdr |-> NULL, lay |-> 0, new |-> NULL, e1 |-> <<>>,
   res |-> <<>>, ret |-> NULL]

\* ----------------------------------------------------------------- Init
Init ==
  /\ mem = StampAll([a \in Mapped |-> 0], Len(StaticHeaders))
  /\ blocks = {}
  /\ ptrs = {}
  /\ last = [op |-> "init", ptr |-> NULL, size |-> 0, res |-> Ok, ret |-> NULL,
             calls |-> <<>>]
  /\ ops = 0
  /\ thr = [t \in Threads |-> NoCall]

\* --------------------------------------------------------------- actions
Alloc ==
  /\ Running
  /\ \E size \in SizeInputs : \E o \in alloc(mem, blocks, size) :
       /\ mem' = o.mem
       /\ blocks' = o.blocks
       /\ ptrs' = Track(ptrs, o, size)
       /\ last' = Record("alloc", NULL, size, o)
  /\ ops' = ops + 1
  /\ UNCHANGED thr

Free ==
  /\ Running
  /\ \E ptr \in PtrInputs : \E o \in free(mem, blocks, ptr) :
       /\ mem' = o.mem
       /\ blocks' = o.blocks
       /\ ptrs' = Track(ptrs, o, 0)
       /\ last' = Record("free", ptr, 0, o)
  /\ ops' = ops + 1
  /\ UNCHANGED thr

Relloc ==
  /\ Running
  /\ \E in \in RellocInputs : \E o \in relloc(mem, blocks, in[1], in[2]) :
       /\ mem' = o.mem
       /\ blocks' = o.blocks
       /\ ptrs' = Track(ptrs, o, in[2])
       /\ last' = Record("relloc", in[1], in[2], o)
  /\ ops' = ops + 1
  /\ UNCHANGED thr

\* The caller fills the payload it asked for, once, when it has received it.
Write ==
  /\ last.op \in {"alloc", "relloc"}
  /\ last.res = Ok
  /\ \E e \in ptrs : \E seed \in PatternSeeds :
       /\ e.st = "live"
       /\ e.ptr = last.ret
       /\ e.req > 0
       /\ mem' = [a \in DOMAIN mem |->
                    IF a \in Range(e.ptr, e.req)
                    THEN Pattern(seed, a - e.ptr) ELSE mem[a]]
       /\ last' = [op |-> "write", ptr |-> e.ptr, size |-> e.req, res |-> Ok,
                   ret |-> NULL, calls |-> <<>>]
  /\ UNCHANGED <<blocks, ptrs, ops, thr>>

Next == Alloc \/ Free \/ Relloc \/ Write

Spec == Init /\ [][Next]_vars

\* ============================================================ two threads
\* The same three functions, called by two threads at once, each on its own
\* pointer. A step is one access to shared memory or one call of the global
\* allocator (which is atomic), together with the thread-local work that
\* follows it; the steps of the two threads interleave freely.

\* the address of the block thread t holds at the start, and its pointer
ConcBlock(t) == HeapLo + (t - 1) * HEADER_SIZE
ConcPtr(t) == PayloadPtr(ConcBlock(t))

\* memory and allocator after each thread has had alloc(0) return its block
RECURSIVE ConcMem(_)
ConcMem(t) ==
  IF t = 0 THEN [a \in Mapped |-> 0]
  ELSE StampHeader(ConcMem(t - 1), ConcBlock(t), MARKER_USED, BlockSize(0))
ConcMem0 == ConcMem(Cardinality(Threads))
ConcBlocks0 == {[addr |-> ConcBlock(t), size |-> BlockSize(0)] : t \in Threads}

\* the calls thread t may make: no two threads name the same pointer
ConcCalls(t) ==
  {[op |-> "alloc", ptr |-> NULL, size |-> n] : n \in {0, USIZE_MAX}}
  \cup {[op |-> "free", ptr |-> ConcPtr(t), size |-> 0]}
  \cup {[op |-> "relloc", ptr |-> q, size |-> n]
          : q \in {NULL, ConcPtr(t)}, n \in {0, 3}}

InitConc ==
  /\ mem = ConcMem0
  /\ blocks = ConcBlocks0
  /\ ptrs = {}
  /\ last = [op |-> "init", ptr |-> NULL, size |-> 0, res |-> Ok, ret |-> NULL,
             calls |-> <<>>]
  /\ ops = 0
  /\ thr = [t \in Threads |-> NoCall]

\* the call returns
Finish(th, res, ret) == [th EXCEPT !.pc = "done", !.res = res, !.ret = ret]

\* the thread enters alloc(n) / free(fp) on behalf of ctx
EnterAlloc(th, n, ctx) == [th EXCEPT !.pc = "a_request", !.ctx = ctx, !.n = n]
EnterFree(th, fp, ctx) == [th EXCEPT !.pc = "f_check", !.ctx = ctx, !.fp = fp]

\* alloc returns to its caller: the user (lib.rs 28-57), relloc with a null
\* pointer (lib.rs 117), relloc after its tests (lib.rs 139)
AllocReturn(th, res, ret) ==
  IF res = Crash THEN Finish(th, Crash, NULL)
  ELSE IF th.ctx = "alloc" THEN Finish(th, res, ret)
  ELSE IF res # Ok THEN Finish(th, <<"AllocationError">> \o res, NULL)
  ELSE IF th.ctx = "r_null" THEN Finish(th, Ok, ret)
  ELSE [th EXCEPT !.new = ret, !.pc = "r_copy"]

\* free returns to its caller: the user (lib.rs 66-97), relloc to size 0
\* (lib.rs 110), relloc after the copy (lib.rs 145-153)
FreeReturn(th, res) ==
  IF res = Crash THEN Finish(th, Crash, NULL)
  ELSE IF th.ctx = "free" THEN Finish(th, res, NULL)
  ELSE IF th.ctx = "r_zero"
  THEN Finish(th, IF res = Ok THEN Ok ELSE <<"DeallocationError">> \o res, NULL)
  ELSE IF th.ctx = "r_old"
  THEN IF res = Ok THEN Finish(th, Ok, th.new)
       ELSE EnterFree([th EXCEPT !.e1 = res], th.new, "r_newfree")
  ELSE IF res = Ok THEN Finish(th, <<"DeallocationError">> \o th.e1, NULL)
  ELSE Finish(th, <<"FreeFailedTwice">> \o th.e1 \o res, NULL)

\* lib.rs 108-129: the call is made; relloc's tests that read no memory
Dispatch(c) ==
  LET th == [NoCall EXCEPT !.op = c.op, !.ptr = c.ptr, !.size = c.size]
  IN IF c.op = "alloc" THEN EnterAlloc(th, c.size, "alloc")
     ELSE IF c.op = "free" THEN EnterFree(th, c.ptr, "free")
     ELSE IF c.size = 0
     THEN IF c.ptr # NULL THEN EnterFree(th, c.ptr, "r_zero")
          ELSE Finish(th, Ok, NULL)
     ELSE IF c.ptr = NULL THEN EnterAlloc(th, c.size, "r_null")
     ELSE IF c.ptr % HEADER_SIZE # 0 \/ (c.ptr - HEADER_SIZE) % HEADER_ALIGN # 0
     THEN Finish(th, <<"ImproperAlignment">>, NULL)
     ELSE [th EXCEPT !.pc = "r_marker"]

\* free's two writes to what it gives up, in the order the source makes them
\* (lib.rs 92, 94); FreeOrderReleaseFirst is the other order
FreeOrderReleaseFirst == <<"f_dealloc", "f_mark">>

FreeOrder == <<"f_mark", "f_dealloc">>

\* free has made the step at th.pc: the other one is next, or free returns
AfterFreeStep(th) ==
  IF th.pc = FreeOrder[1] THEN [th EXCEPT !.pc = FreeOrder[2]]
  ELSE FreeReturn(th, Ok)

Step(t, th) == thr' = [thr EXCEPT ![t] = th]

CallMade ==
  \E t \in Threads :
    /\ thr[t].pc = "idle"
    /\ \E c \in ConcCalls(t) : Step(t, Dispatch(c))
    /\ UNCHANGED <<mem, blocks, ptrs, last, ops>>

\* lib.rs 29-47: the layout, std::alloc::alloc, and the tests of what it gave
AllocRequest ==
  \E t \in Threads :
    LET th == thr[t]
        total == BlockSize(th.n)
        layout == Layout_from_size_align(total, HEADER_SIZE)
    IN /\ th.pc = "a_request"
       /\ IF total = None
          THEN Step(t, AllocReturn(th, <<"ArithmeticError">>, NULL))
               /\ blocks' = blocks
          ELSE IF layout.size = None
          THEN Step(t, AllocReturn(th, <<"LayoutError">>, NULL))
               /\ blocks' = blocks
          ELSE \E ptr \in std_alloc(blocks, layout) :
                 IF ptr = NULL
                 THEN Step(t, AllocReturn(th, <<"OutOfMemory">>, NULL))
                      /\ blocks' = blocks
                 ELSE /\ blocks' = blocks \cup {[addr |-> ptr, size |-> total]}
                      /\ Step(t, [th EXCEPT !.hdr = ptr, !.lay = total,
                                           !.pc = IF ptr % HEADER_SIZE # 0
                                                  THEN "a_dealloc"
                                                  ELSE "a_marker"])
       /\ UNCHANGED <<mem, ptrs, last, ops>>

\* lib.rs 44-46: the misaligned block goes back
AllocDealloc ==
  \E t \in Threads :
    LET th == thr[t]
    IN /\ th.pc = "a_dealloc"
       /\ \E d \in std_dealloc(mem, blocks, th.hdr,
                               Layout_from_size_align(th.lay, HEADER_SIZE)) :
            /\ mem' = d.mem
            /\ blocks' = d.blocks
            /\ Step(t, AllocReturn(th, IF d.crash THEN Crash
                                       ELSE <<"ImproperAlignment">>, NULL))
       /\ UNCHANGED <<ptrs, last, ops>>

\* lib.rs 51
AllocMarker ==
  \E t \in Threads :
    LET th == thr[t]
    IN /\ th.pc = "a_marker"
       /\ mem' = SetMarker(mem, th.hdr, MARKER_USED)
       /\ Step(t, [th EXCEPT !.pc = "a_size"])
       /\ UNCHANGED <<blocks, ptrs, last, ops>>

\* lib.rs 52-56
AllocSize ==
  \E t \in Threads :
    LET th == thr[t]
    IN /\ th.pc = "a_size"
       /\ mem' = StampHeader(mem, th.hdr, HeaderMarker(mem, th.hdr), th.lay)
       /\ Step(t, AllocReturn(th, Ok, PayloadPtr(th.hdr)))
       /\ UNCHANGED <<blocks, ptrs, last, ops>>

\* lib.rs 67-88: free's tests of the pointer and of the marker it reads
FreeCheck ==
  \E t \in Threads :
    LET th == thr[t]
        h == th.fp - HEADER_SIZE
    IN /\ th.pc = "f_check"
       /\ Step(t, IF th.fp = NULL THEN FreeReturn(th, <<"NullPtr">>)
                  ELSE IF th.fp % HEADER_SIZE # 0 \/ h % HEADER_ALIGN # 0
                  THEN FreeReturn(th, <<"ImproperAlignment">>)
                  ELSE IF ~(Range(h, HEADER_SIZE) \subseteq Mapped)
                  THEN FreeReturn(th, Crash)
                  ELSE IF MarkerCheck(HeaderMarker(mem, h)) # "Used"
                  THEN FreeReturn(th, <<MarkerCheck(HeaderMarker(mem, h))>>)
                  ELSE [th EXCEPT !.hdr = h, !.pc = "f_size"])
       /\ UNCHANGED <<mem, blocks, ptrs, last, ops>>

\* lib.rs 90: the layout from the size in the header
FreeLayout ==
  \E t \in Threads :
    LET th == thr[t]
        layout == Layout_from_size_align(HeaderSize(mem, th.hdr), HEADER_SIZE)
    IN /\ th.pc = "f_size"
       /\ Step(t, IF layout.size = None
                  THEN FreeReturn(th, <<"LayoutError">>)
                  ELSE [th EXCEPT !.lay = layout.size, !.pc = FreeOrder[1]])
       /\ UNCHANGED <<mem, blocks, ptrs, last, ops>>

\* lib.rs 92
FreeMark ==
  \E t \in Threads :
    LET th == thr[t]
    IN /\ th.pc = "f_mark"
       /\ mem' = SetMarker(mem, th.hdr, MARKER_FREE)
       /\ Step(t, AfterFreeStep(th))
       /\ UNCHANGED <<blocks, ptrs, last, ops>>

\* lib.rs 94
FreeDealloc ==
  \E t \in Threads :
    LET th == thr[t]
    IN /\ th.pc = "f_dealloc"
       /\ \E d \in std_dealloc(mem, blocks, th.hdr,
                               Layout_from_size_align(th.lay, HEADER_SIZE)) :
            /\ mem' = d.mem
            /\ blocks' = d.blocks
            /\ Step(t, IF d.crash THEN FreeReturn(th, Crash)
                       ELSE AfterFreeStep(th))
       /\ UNCHANGED <<ptrs, last, ops>>

\* lib.rs 131-139: relloc reads the marker of the old block
RellocMarker ==
  \E t \in Threads :
    LET th == thr[t]
        h == th.ptr - HEADER_SIZE
    IN /\ th.pc = "r_marker"
       /\ Step(t, IF ~(Range(h, HEADER_SIZE) \subseteq Mapped)
                  THEN Finish(th, Crash, NULL)
                  ELSE IF RellocMarkerCheck(HeaderMarker(mem, h)) # "Used"
                  THEN Finish(th, <<RellocMarkerCheck(HeaderMarker(mem, h))>>, NULL)
                  ELSE EnterAlloc(th, th.size, "r_new"))
       /\ UNCHANGED <<mem, blocks, ptrs, last, ops>>

\* What a read that races with another thread's write may see in place of
\* the byte in memory.
TornByte == 255

\* lib.rs 141-145: the copy, then free of the old pointer is entered. The
\* bytes the copy reads past the end of the old block may be in the hands of
\* the other thread: they arrive as they are in memory or torn.
RellocCopy ==
  \E t \in Threads :
    LET th == thr[t]
        size == HeaderSize(mem, th.ptr - HEADER_SIZE)
        count == CopyLen(size, th.size)
        room == size - HEADER_SIZE
        copied == CopyBytes(mem, th.ptr, th.new, count)
        torn == [a \in DOMAIN mem |->
                   IF a \in Range(th.new + room, count - room)
                   THEN TornByte ELSE copied[a]]
    IN /\ th.pc = "r_copy"
       /\ IF Range(th.ptr, count) \subseteq Mapped
          THEN /\ mem' \in {copied, torn}
               /\ Step(t, EnterFree(th, th.ptr, "r_old"))
          ELSE /\ mem' = mem
               /\ Step(t, Finish(th, Crash, NULL))
       /\ UNCHANGED <<blocks, ptrs, last, ops>>

NextConc ==
  \/ CallMade
  \/ AllocRequest \/ AllocDealloc \/ AllocMarker \/ AllocSize
  \/ FreeCheck \/ FreeLayout \/ FreeMark \/ FreeDealloc
  \/ RellocMarker \/ RellocCopy

SpecConc == InitConc /\ [][NextConc]_vars

\* ================================================================ properties
Releases(calls) == {i \in DOMAIN calls : calls[i].fn = "dealloc"}
Requests(calls) == {i \in DOMAIN calls : calls[i].fn = "alloc"}

Live == {e \in ptrs : e.st = "live"}

\* The block size a request of `size` bytes needs, in unbounded arithmetic.
Rounded(size) == RoundUp(size + HEADER_SIZE, HEADER_SIZE)

\* ---------------------------------------------------------------- C1
\* A free of a pointer that was live returned Ok(()).
FreeOfLiveIsOk ==
  (last'.op = "free" /\ last'.ptr \in {e.ptr : e \in Live}) => last'.res = Ok

\* C1 as stated: every alloc(s) succeeds, returns a non-null pointer that is a
\* multiple of HEADER_SIZE, and a free of that pointer returns Ok(()).
C1_EveryAllocSucceeds ==
  [][/\ last'.op = "alloc" =>
          /\ last'.res = Ok
          /\ last'.ret # NULL
          /\ last'.ret % HEADER_SIZE = 0
     /\ FreeOfLiveIsOk]_vars

\* C1 amended: alloc(s) succeeds exactly when the rounded block size is within
\* the layout limit (isize::MAX - (HEADER_SIZE - 1)) and the global allocator
\* returns a non-null address that is a multiple of HEADER_SIZE; a successful
\* alloc returns a non-null multiple of HEADER_SIZE, and a free of a pointer
\* that is still live returns Ok(()).
C1_AllocThenFree ==
  [][/\ last'.op = "alloc" =>
          /\ last'.res = Ok <=>
               /\ Rounded(last'.size) <= ISIZE_MAX - (HEADER_SIZE - 1)
               /\ last'.calls # <<>>
               /\ last'.calls[1].addr # NULL
               /\ last'.calls[1].addr % HEADER_SIZE = 0
          /\ last'.res = Ok => last'.ret # NULL /\ last'.ret % HEADER_SIZE = 0
     /\ FreeOfLiveIsOk]_vars

\* an alloc has succeeded and the free of its pointer has returned Ok(())
C1_Witness ==
  /\ last.op = "free"
  /\ last.res = Ok
  /\ \E e \in ptrs : e.ptr = last.ptr /\ e.st = "freed"

\* ---------------------------------------------------------------- C2
\* C2: after free(p) has returned Ok(()) for a pointer alloc returned, and with
\* no request in between that reuses the memory, a second free(p) returns
\* Err(DoubleFree) and calls no release, so the block is released once.
C2_SecondFreeIsDoubleFree ==
  \A e \in ptrs :
    (last.op = "free" /\ last.res = Ok /\ last.ptr = e.ptr /\ e.st = "freed") =>
      /\ Cardinality(Releases(last.calls)) = 1
      /\ \A o \in free(mem, blocks, e.ptr) :
           o.res = <<"DoubleFree">> /\ Releases(o.calls) = {}

\* ---------------------------------------------------------------- C3
\* C3: a free that returns an error leaves memory as it was (no marker, no
\* size field, no other byte changes) and calls no release.
C3_FreeErrorTouchesNothing ==
  [][(last'.op = "free" /\ last'.res # Ok /\ last'.res # Crash) =>
       /\ last'.res[1] \in {"NullPtr", "ImproperAlignment", "DoubleFree",
                            "InvalidAllocation", "LayoutError"}
       /\ mem' = mem
       /\ blocks' = blocks
       /\ last'.calls = <<>>]_vars

\* a free has returned LayoutError, past the marker test
C3_Witness == last.op = "free" /\ last.res = <<"LayoutError">>

\* ---------------------------------------------------------------- C4
\* C4: free(null) returns Err(NullPtr) and calls neither request nor release.
C4_FreeNull ==
  (last.op = "free" /\ last.ptr = NULL) =>
    last.res = <<"NullPtr">> /\ last.calls = <<>>

\* free(null) has been called while a block is live
C4_Witness == last.op = "free" /\ last.ptr = NULL /\ Live # {}

\* ---------------------------------------------------------------- C5
\* C5 as stated: free of a non-null pointer the library never returned gives
\* InvalidAllocation or ImproperAlignment and calls no release, whatever bytes
\* precede the pointer.
C5_ForeignAlwaysRejected ==
  (last.op = "free" /\ last.ptr \in ForeignPtrs) =>
    /\ last.res \in {<<"InvalidAllocation">>, <<"ImproperAlignment">>}
    /\ Releases(last.calls) = {}

\* C5 amended: free of a non-null pointer p the library never returned gives
\* ImproperAlignment when p is no multiple of HEADER_SIZE; when p is a multiple
\* and the header bytes before it are mapped, it gives InvalidAllocation if the
\* marker there is neither MARKER_USED nor MARKER_FREE and DoubleFree if it is
\* MARKER_FREE; in these cases no release is called. (Bytes that read
\* MARKER_USED make free treat the pointer as its own.)
C5_ForeignFree ==
  [][(last'.op = "free" /\ last'.ptr \in ForeignPtrs) =>
       LET p == last'.ptr
           h == p - HEADER_SIZE
       IN /\ p % HEADER_SIZE # 0 =>
               last'.res = <<"ImproperAlignment">> /\ last'.calls = <<>>
          /\ (p % HEADER_SIZE = 0 /\ Range(h, HEADER_SIZE) \subseteq Mapped) =>
               /\ HeaderMarker(mem, h) \notin {MARKER_USED, MARKER_FREE} =>
                    last'.res = <<"InvalidAllocation">> /\ last'.calls = <<>>
               /\ HeaderMarker(mem, h) = MARKER_FREE =>
                    last'.res = <<"DoubleFree">> /\ last'.calls = <<>>]_vars

\* free of a pointer into static memory has returned InvalidAllocation
C5_Witness ==
  last.op = "free" /\ last.ptr \in StaticPtrs /\ last.res = <<"InvalidAllocation">>

\* ---------------------------------------------------------------- C6
\* C6: alloc(s) returns Err(ArithmeticError) and calls nothing whenever
\* s + HEADER_SIZE, or its rounding up to a multiple of HEADER_SIZE, exceeds
\* the largest usize.
C6_Overflow ==
  (last.op = "alloc" /\ Rounded(last.size) > USIZE_MAX) =>
    last.res = <<"ArithmeticError">> /\ last.calls = <<>>

\* alloc(SIZE_MAX) has been called
C6_Witness ==
  last.op = "alloc" /\ last.size = USIZE_MAX /\ last.res = <<"ArithmeticError">>

\* ---------------------------------------------------------------- C7
\* C7: after alloc(s) returns Ok(P), the header at P - HEADER_SIZE holds
\* MARKER_USED and s + HEADER_SIZE rounded up to a multiple of HEADER_SIZE, and
\* P is the address the global allocator returned plus HEADER_SIZE.
C7_HeaderAfterAlloc ==
  (last.op = "alloc" /\ last.res = Ok) =>
    /\ HeaderMarker(mem, last.ret - HEADER_SIZE) = MARKER_USED
    /\ HeaderSize(mem, last.ret - HEADER_SIZE) = Rounded(last.size)
    /\ Len(last.calls) = 1
    /\ last.calls[1].fn = "alloc"
    /\ last.ret = last.calls[1].addr + HEADER_SIZE

\* alloc of a size that needs rounding has succeeded
C7_Witness ==
  /\ last.op = "alloc"
  /\ last.res = Ok
  /\ last.size = 5
  /\ HeaderSize(mem, last.ret - HEADER_SIZE) = 2 * HEADER_SIZE

\* ---------------------------------------------------------------- C8
\* C8: after relloc(p, n) returns Ok(q) for a live block requested with size m
\* (n > 0), the first min(m, n) bytes at q are the first min(m, n) bytes that
\* were at p before the call.
C8_PrefixPreserved ==
  [][\A e \in Live :
       (last'.op = "relloc" /\ last'.ptr = e.ptr /\ last'.size > 0
        /\ last'.res = Ok) =>
         \A i \in 0..(Min(e.req, last'.size) - 1) :
           mem'[last'.ret + i] = mem[e.ptr + i]]_vars

\* a written block has been grown and the new payload starts with the pattern
C8_Witness ==
  /\ last.op = "relloc"
  /\ last.res = Ok
  /\ last.size = 12
  /\ \E e \in ptrs : e.ptr = last.ptr /\ e.st = "freed" /\ e.req = 5
  /\ \E seed \in PatternSeeds :
       \A i \in 0..4 : mem[last.ret + i] = Pattern(seed, i)

\* ---------------------------------------------------------------- C9
\* An outcome of free or alloc as relloc reports it: the same memory, blocks,
\* calls and pointer, the error wrapped.
Wrapped(o, wrap) ==
  IF o.res = Ok \/ o.res = Crash THEN o ELSE [o EXCEPT !.res = <<wrap>> \o o.res]

\* What the call just made has left behind, as an outcome.
Done ==
  [mem |-> mem', blocks |-> blocks', res |-> last'.res, ret |-> last'.ret,
   calls |-> last'.calls]

\* relloc(p, 0) did what free(p) can do in that state, and free(p) what
\* relloc(p, 0) can do
ZeroAsFree ==
  /\ (last'.op = "relloc" /\ last'.size = 0) =>
       \E f \in free(mem, blocks, last'.ptr) :
         Done = Wrapped(f, "DeallocationError")
  /\ last'.op = "free" =>
       Wrapped(Done, "DeallocationError") \in relloc(mem, blocks, last'.ptr, 0)

\* C9 as stated: for every pointer p, null included, relloc(p, 0) does to
\* headers and the global allocator what free(p) does, succeeds or fails as
\* free(p) does, and returns null on success.
C9_ZeroIsFreeForAll == [][ZeroAsFree]_vars

\* C9 amended: for every non-null pointer p, relloc(p, 0) does what free(p)
\* does, fails with free's error (as DeallocationError) when free fails and
\* returns null when it succeeds; relloc(null, 0) returns Ok(null) and does
\* nothing, where free(null) returns Err(NullPtr).
C9_ZeroIsFree ==
  [][/\ last'.ptr # NULL => ZeroAsFree
     /\ (last'.op = "relloc" /\ last'.size = 0 /\ last'.ptr = NULL) =>
          Done = Outcome(mem, blocks, Ok, NULL, <<>>)
     /\ (last'.op = "relloc" /\ last'.size = 0 /\ last'.res = Ok) =>
          last'.ret = NULL]_vars

\* relloc(p, 0) has released a live block
C9_Witness ==
  /\ last.op = "relloc"
  /\ last.size = 0
  /\ last.res = Ok
  /\ Releases(last.calls) # {}
  /\ \E e \in ptrs : e.ptr = last.ptr /\ e.st = "freed"

\* ---------------------------------------------------------------- C10
\* relloc(null, n) did what alloc(n) can do in that state, and alloc(n) what
\* relloc(null, n) can do
NullAsAlloc ==
  /\ (last'.op = "relloc" /\ last'.ptr = NULL) =>
       \E a \in alloc(mem, blocks, last'.size) :
         Done = Wrapped(a, "AllocationError")
  /\ last'.op = "alloc" =>
       Wrapped(Done, "AllocationError") \in relloc(mem, blocks, NULL, last'.size)

\* C10 as stated: for every n, 0 included, relloc(null, n) makes the calls
\* alloc(n) makes, stamps the same header and returns what alloc(n) returns.
C10_NullIsAllocForAll == [][NullAsAlloc]_vars

\* C10 amended: for every n > 0, relloc(null, n) makes the calls alloc(n)
\* makes, stamps the same header and returns the same pointer, or alloc's error
\* as AllocationError; relloc(null, 0) requests nothing and returns Ok(null).
C10_NullIsAlloc ==
  [][/\ last'.size > 0 => NullAsAlloc
     /\ (last'.op = "relloc" /\ last'.ptr = NULL /\ last'.size = 0) =>
          Done = Outcome(mem, blocks, Ok, NULL, <<>>)]_vars

\* relloc(null, n) has allocated a block
C10_Witness ==
  /\ last.op = "relloc"
  /\ last.ptr = NULL
  /\ last.size > 0
  /\ last.res = Ok
  /\ HeaderMarker(mem, last.ret - HEADER_SIZE) = MARKER_USED
  /\ \E e \in Live : e.ptr = last.ret /\ e.req = last.size

\* ---------------------------------------------------------------- C11
\* C11: relloc(p, n) with p non-null and n > 0 tests the header first: a p
\* that is no multiple of HEADER_SIZE gives ImproperAlignment, a header marked
\* FREE gives UseAfterFree, a marker that is neither gives InvalidPointer; in
\* each case nothing is requested or released and no byte changes.
C11_RellocValidatesFirst ==
  [][(last'.op = "relloc" /\ last'.ptr # NULL /\ last'.size > 0) =>
       LET p == last'.ptr
           h == p - HEADER_SIZE
           untouched == mem' = mem /\ blocks' = blocks /\ last'.calls = <<>>
       IN /\ p % HEADER_SIZE # 0 =>
               last'.res = <<"ImproperAlignment">> /\ untouched
          /\ (p % HEADER_SIZE = 0 /\ Range(h, HEADER_SIZE) \subseteq Mapped) =>
               /\ HeaderMarker(mem, h) = MARKER_FREE =>
                    last'.res = <<"UseAfterFree">> /\ untouched
               /\ HeaderMarker(mem, h) \notin {MARKER_USED, MARKER_FREE} =>
                    last'.res = <<"InvalidPointer">> /\ untouched]_vars

\* relloc to a size above 0 has refused a pointer whose header reads FREE
C11_Witness ==
  /\ last.op = "relloc"
  /\ last.size > 0
  /\ last.res = <<"UseAfterFree">>
  /\ HeaderMarker(mem, last.ptr - HEADER_SIZE) = MARKER_FREE

\* ---------------------------------------------------------------- C12
\* the errors alloc can return (error.rs 8-17)
AllocErrors == {"ArithmeticError", "ImproperAlignment", "LayoutError", "OutOfMemory"}

\* C12: when relloc(p, n) of a live block fails because its alloc(n) failed,
\* the result is that allocation error, and the old block is as it was: its
\* marker reads USED, its stored size and every byte of it are unchanged, it
\* has not been released, and free(p) afterwards returns Ok.
C12_AllocFailureKeepsOld ==
  [][\A e \in Live :
       (/\ last'.op = "relloc" /\ last'.ptr = e.ptr /\ last'.size > 0
        /\ last'.res[1] = "AllocationError") =>
         LET h == e.ptr - HEADER_SIZE
         IN /\ Len(last'.res) = 2 /\ last'.res[2] \in AllocErrors
            /\ <<last'.res[2]>> \in {a.res : a \in alloc(mem, blocks, last'.size)}
            /\ last'.ret = NULL
            /\ HeaderMarker(mem', h) = MARKER_USED
            /\ HeaderSize(mem', h) = HeaderSize(mem, h)
            /\ Bytes(mem', h, e.bsize) = Bytes(mem, h, e.bsize)
            /\ [addr |-> h, size |-> e.bsize] \in blocks'
            /\ \A i \in Releases(last'.calls) : last'.calls[i].addr # h
            /\ e \in ptrs'
            /\ \A f \in free(mem', blocks', e.ptr) : f.res = Ok]_vars

\* relloc of a live block has failed because no memory was to be had
C12_Witness ==
  /\ last.op = "relloc"
  /\ last.size > 0
  /\ last.res = <<"AllocationError", "OutOfMemory">>
  /\ \E e \in Live : e.ptr = last.ptr

\* ---------------------------------------------------------------- C13
\* the errors free can return (error.rs 20-31)
FreeErrors ==
  {"DoubleFree", "ImproperAlignment", "InvalidAllocation", "LayoutError", "NullPtr"}

\* the errors of free(ptr) on memory m, as one-element tuples
FreeFailures(m, bl, ptr) == {f.res : f \in free(m, bl, ptr)} \ {Ok, Crash}

\* the step is a relloc to a size above 0 whose alloc returned a new block
GotNewBlock ==
  /\ last'.op = "relloc" /\ last'.ptr # NULL /\ last'.size > 0
  /\ Len(last'.calls) >= 1
  /\ last'.calls[1].fn = "alloc"
  /\ last'.calls[1].addr # NULL
  /\ last'.calls[1].addr % HEADER_SIZE = 0

\* C13: when free(old pointer) fails after relloc has allocated the new
\* block, relloc does not return Ok: it calls free(new pointer) and returns
\* DeallocationError with the first error when that succeeds, the new block
\* then being released, or FreeFailedTwice(e1, e2) with the error of
\* free(old) first and the error of free(new) second when it fails too.
C13_OldFreeFailure ==
  [][/\ (GotNewBlock /\ FreeFailures(mem, blocks, last'.ptr) # {}
           /\ \A f \in free(mem, blocks, last'.ptr) : f.res # Ok) =>
          LET n    == Len(last'.calls)
              new  == last'.calls[1]
              nblk == [addr |-> new.addr, size |-> new.size]
          IN /\ last'.res # Ok
             /\ last'.ret = NULL
             /\ \/ /\ last'.res[1] = "DeallocationError"
                   /\ Len(last'.res) = 2
                   /\ <<last'.res[2]>> \in FreeFailures(mem, blocks, last'.ptr)
                   /\ last'.calls[n] = [new EXCEPT !.fn = "dealloc"]
                   /\ nblk \notin blocks'
                \/ /\ last'.res[1] = "FreeFailedTwice"
                   /\ Len(last'.res) = 3
                   /\ <<last'.res[2]>> \in FreeFailures(mem, blocks, last'.ptr)
                   /\ last'.res[3] \in FreeErrors
                   /\ nblk \in blocks'
     /\ (last'.op = "relloc" /\ last'.ptr \in StaticPtrs) =>
          \A p \in {last'.ptr}, q \in StaticPtrs :
            \A o \in relloc_free(mem, blocks, p, q, <<>>) :
              /\ o.res = Ok => FreeFailures(mem, blocks, p) = {}
              /\ o.res[1] = "FreeFailedTwice" =>
                   /\ <<o.res[2]>> \in FreeFailures(mem, blocks, p)
                   /\ <<o.res[3]>> \in FreeFailures(mem, blocks, q)
                   /\ o.mem = mem /\ o.blocks = blocks
              /\ o.res[1] = "DeallocationError" =>
                   /\ <<o.res[2]>> \in FreeFailures(mem, blocks, p)
                   /\ FreeFailures(mem, blocks, q) = {}]_vars

\* relloc got a new block, free of the old pointer failed, and the new block
\* was released again
C13_Witness ==
  /\ last.op = "relloc"
  /\ last.size > 0
  /\ last.res = <<"DeallocationError", "LayoutError">>
  /\ Len(last.calls) = 2
  /\ last.calls[1].fn = "alloc"
  /\ last.calls[2] = [last.calls[1] EXCEPT !.fn = "dealloc"]

\* ---------------------------------------------------------------- C14
\* the step is a relloc of the live block e to a size above 0 that got as far
\* as the copy: its alloc returned a new block
CopiesFrom(e) == GotNewBlock /\ last'.ptr = e.ptr

\* the count relloc hands to copy_nonoverlapping on this step (lib.rs 141-143)
CopyCount(e) == CopyLen(HeaderSize(mem, e.ptr - HEADER_SIZE), last'.size)

\* C14: relloc of a live block copies min(old_requested_size, new_size) bytes,
\* old_requested_size being the size the caller passed when the old block was
\* allocated.
C14_CopiesRequested ==
  [][\A e \in Live : CopiesFrom(e) => CopyCount(e) = Min(e.req, last'.size)]_vars

\* ---------------------------------------------------------------- C15
\* C15: the bytes relloc reads from the old block end inside it: the count is
\* at most the stored size less HEADER_SIZE, the room behind the header.
C15_CopyWithinOldBlock ==
  [][\A e \in Live :
       CopiesFrom(e) =>
         /\ CopyCount(e) <= HeaderSize(mem, e.ptr - HEADER_SIZE) - HEADER_SIZE
         /\ last'.res # Crash]_vars

\* ---------------------------------------------------------------- C16
\* the blocks that were released and that no later request has overlapped
Released == {e \in ptrs : e.st = "freed"}

\* C16 as stated: from its release until its memory is requested again, the
\* header of a released block reads FREE.
C16_ReleasedReadsFree ==
  \A e \in Released : HeaderMarker(mem, e.ptr - HEADER_SIZE) = MARKER_FREE

\* the bytes at a..a+n-1 are the ones the allocator writes into released memory
AllocatorOwned(m, a, n) == \A i \in 1..n : Bytes(m, a, n)[i] = FreeListByte

\* C16, amended: free writes FREE into the marker before it releases the
\* block, so the header of a released block never reads USED: it reads FREE,
\* or what the allocator has written over it since the release. The step that
\* releases the block leaves the header marked FREE with its size as it was,
\* or overwritten by the allocator as a whole.
C16_ReleasedNeverReadsUsed ==
  [][/\ \A e \in Released :
          LET h == e.ptr - HEADER_SIZE
          IN /\ HeaderMarker(mem, h) # MARKER_USED
             /\ \/ HeaderMarker(mem, h) = MARKER_FREE
                \/ AllocatorOwned(mem, h, MARKER_LEN)
     /\ \A e \in Live :
          (e \notin Live' /\ last'.res # Crash) =>
            LET h == e.ptr - HEADER_SIZE
            IN /\ HeaderMarker(mem', h) # MARKER_USED
               /\ \/ /\ HeaderMarker(mem', h) = MARKER_FREE
                     /\ HeaderSize(mem', h) = HeaderSize(mem, h)
                  \/ AllocatorOwned(mem', h, HEADER_SIZE)]_vars

\* a block has been released and its header reads FREE
C16_Witness ==
  /\ last.op = "free"
  /\ last.res = Ok
  /\ \E e \in Released :
       /\ e.ptr = last.ptr
       /\ HeaderMarker(mem, e.ptr - HEADER_SIZE) = MARKER_FREE

\* ---------------------------------------------------------------- C17
\* C17: with a caller that passes only null and pointers this library
\* returned, a block is released at most once and a pointer is refused once a
\* successful free or relloc has consumed it: free of it gives DoubleFree and
\* relloc of it gives UseAfterFree; after a successful relloc to a size above
\* 0 the old block is released and the new one is live.
C17_ConsumedPointerRefused ==
  last.ptr \notin ForeignPtrs =>
    /\ \A e \in Released :
         /\ [addr |-> e.ptr - HEADER_SIZE, size |-> e.bsize] \notin blocks
         /\ \A f \in free(mem, blocks, e.ptr) :
              f.res = <<"DoubleFree">> /\ f.calls = <<>>
         /\ \A n \in NewSizeInputs \ {0} :
              \A r \in relloc(mem, blocks, e.ptr, n) :
                r.res = <<"UseAfterFree">> /\ r.calls = <<>>
    /\ (last.op = "relloc" /\ last.ptr # NULL /\ last.size > 0 /\ last.res = Ok) =>
         /\ \E e \in Released : e.ptr = last.ptr
         /\ \E e \in Live : e.ptr = last.ret

\* ---------------------------------------------------------------- C18
\* call i of cs releases a block with the address, size and alignment it was
\* requested with: the allocator holds it in bl, or an earlier call of cs
\* requested it
ReleasesAsRequested(cs, i, bl) ==
  \/ [addr |-> cs[i].addr, size |-> cs[i].size] \in bl
  \/ \E j \in 1..(i - 1) : cs[j] = [cs[i] EXCEPT !.fn = "alloc"]

\* C18: every release made by free, directly or inside relloc, passes the
\* address and the layout (the size read from the header, alignment
\* HEADER_SIZE) the block was requested with, and the size stored in the
\* header of every live block is a multiple of HEADER_SIZE, at least
\* HEADER_SIZE, and the size the block was requested with.
C18_ReleaseMatchesRequest ==
  [][(last'.op \in {"alloc", "free", "relloc"} /\ last'.ptr \notin ForeignPtrs) =>
       /\ \A i \in DOMAIN last'.calls :
            /\ last'.calls[i].align = HEADER_SIZE
            /\ last'.calls[i].fn = "dealloc" =>
                 ReleasesAsRequested(last'.calls, i, blocks)
       /\ \A e \in Live :
            (\E i \in Releases(last'.calls) : last'.calls[i].addr = e.ptr - HEADER_SIZE) =>
              \E i \in Releases(last'.calls) :
                /\ last'.calls[i].addr = e.ptr - HEADER_SIZE
                /\ last'.calls[i].size = e.bsize
                /\ last'.calls[i].size = HeaderSize(mem, e.ptr - HEADER_SIZE)
       /\ \A e \in Live' :
            LET size == HeaderSize(mem', e.ptr - HEADER_SIZE)
            IN /\ size % HEADER_SIZE = 0
               /\ size >= HEADER_SIZE
               /\ size = e.bsize
               /\ [addr |-> e.ptr - HEADER_SIZE, size |-> size] \in blocks']_vars

\* free has released a live block of more than one unit with the size in its
\* header
C18_Witness ==
  /\ last.op = "free"
  /\ last.res = Ok
  /\ Len(last.calls) = 1
  /\ last.calls[1].fn = "dealloc"
  /\ last.calls[1].addr = last.ptr - HEADER_SIZE
  /\ last.calls[1].size = 2 * HEADER_SIZE
  /\ \E e \in Released : e.ptr = last.ptr /\ e.bsize = last.calls[1].size

\* ---------------------------------------------------------------- C19
\* C19: relloc never returns FreeFailedTwice. Once it has read USED in the
\* old header and alloc has returned the new block, free of the new pointer
\* does not fail, and free of the old pointer does not fail with NullPtr,
\* ImproperAlignment, DoubleFree or InvalidAllocation.
C19_NeverFreeFailedTwice ==
  [][last'.op = "relloc" =>
       /\ last'.res[1] # "FreeFailedTwice"
       /\ GotNewBlock =>
            LET new == last'.calls[1]
                np  == new.addr + HEADER_SIZE
            IN /\ last'.res[1] = "DeallocationError" =>
                    /\ last'.res[2] \notin {"NullPtr", "ImproperAlignment",
                                            "DoubleFree", "InvalidAllocation"}
                    /\ last'.calls[Len(last'.calls)] = [new EXCEPT !.fn = "dealloc"]
               /\ last'.res = Ok =>
                    /\ last'.ret = np
                    /\ HeaderMarker(mem', new.addr) = MARKER_USED
                    /\ \A g \in free(mem', blocks', np) : g.res = Ok]_vars

\* relloc has read USED in the header of a live block, got a new block and
\* released the old one
C19_Witness ==
  /\ last.op = "relloc"
  /\ last.size > 0
  /\ last.res = Ok
  /\ Len(last.calls) = 2
  /\ last.calls[1].fn = "alloc"
  /\ last.calls[2].fn = "dealloc"
  /\ last.calls[2].addr = last.ptr - HEADER_SIZE
  /\ \E e \in Released : e.ptr = last.ptr

\* ---------------------------------------------------------------- C20
\* the call of thread record th made alone on memory m and allocator state bl
SeqCall(th, m, bl) ==
  IF th.op = "alloc" THEN alloc(m, bl, th.size)
  ELSE IF th.op = "free" THEN free(m, bl, th.ptr)
  ELSE relloc(m, bl, th.ptr, th.size)

\* the headers a call is concerned with: the one before the pointer it was
\* given and the one before the pointer it returned
OwnHeaders(th) ==
  UNION {Range(q - HEADER_SIZE, HEADER_SIZE) : q \in {th.ptr, th.ret} \ {NULL}}

AllDone == \A t \in Threads : thr[t].pc = "done"

\* running first's call and then second's from the start gives the results
\* the threads got, the headers they left, and the allocator's blocks
SameAsInOrder(first, second) ==
  \E o1 \in SeqCall(thr[first], ConcMem0, ConcBlocks0) :
    /\ o1.res = thr[first].res
    /\ o1.ret = thr[first].ret
    /\ \E o2 \in SeqCall(thr[second], o1.mem, o1.blocks) :
         /\ o2.res = thr[second].res
         /\ o2.ret = thr[second].ret
         /\ o2.blocks = blocks
         /\ \A t \in Threads : \A a \in OwnHeaders(thr[t]) : o2.mem[a] = mem[a]

\* C20: calls made at the same time by different threads on different
\* pointers, their steps interleaved in any way, end as the same calls made
\* one after the other in some order: every call returns what it returns
\* there and leaves the headers of its blocks as it leaves them there; no
\* call releases a block the allocator does not hold, so none is released
\* twice.
C20_DisjointCallsSerialize ==
  /\ \A t \in Threads : thr[t].res # Crash
  /\ AllDone =>
       \E first \in Threads, second \in Threads :
         first # second /\ SameAsInOrder(first, second)

\* both calls are over: one thread has freed its block, and alloc in the
\* other thread has returned that very block and stamped its header
C20_Witness ==
  /\ AllDone
  /\ \E t \in Threads, u \in Threads :
       /\ thr[t].op = "free" /\ thr[t].res = Ok
       /\ thr[u].op = "alloc" /\ thr[u].res = Ok
       /\ thr[u].ret = thr[t].ptr
       /\ HeaderMarker(mem, thr[t].ptr - HEADER_SIZE) = MARKER_USED

====
